---- MODULE Spec2Model ----
(***************************************************************************)
(* A model of package tinycrypto (src/crypto.go): the AES-GCM helpers      *)
(* Encrypt/Decrypt, modelled symbolically, and the Keyset with its four    *)
(* methods Encrypt, Decrypt, RotateIn and Purge.                           *)
(*                                                                         *)
(* A *Key is an object on a heap: the keyset's slice holds references      *)
(* (KeyIds), so one Key may sit in several slots and a write through one   *)
(* slot is seen through all of them.  Time is counted in ticks of          *)
(* 1/TicksPerSec second; Unix() truncates an instant to whole seconds.     *)
(*                                                                         *)
(* Spec takes each method call as one step.  SpecConc takes the calls of   *)
(* several goroutines on one keyset step by step, with the keyset's        *)
(* sync.RWMutex between them.                                              *)
(***************************************************************************)
EXTENDS Integers, Sequences, FiniteSets, TLC

(***************************************************************************)
(* Bounds of the model.                                                    *)
(***************************************************************************)
\* longest key slice the model lets a keyset grow to
MaxKeys == 3
\* the clock stops advancing at this instant (in ticks)
MaxClock == 8
\* ticks per second: time.Time has sub-second resolution, Unix() has not
TicksPerSec == 2
\* the goroutines that call into one keyset at the same time
NumProcs == 3
\* the instant (in ticks) at which the keys and the keyset are constructed
StartClock == 2 * TicksPerSec

\* The Key objects the callers hold (pointers *Key).
KeyIds == {1, 2, 3}

\* Key material.  Keys 1 and 2 are two different 32-byte values; key 3 is a
\* 5-byte value, which NewKey accepts (it validates nothing) and
\* aes.NewCipher later rejects.
KeyBytes(k) ==
    IF k % 3 = 1 THEN [len |-> 32, bits |-> "A"]
    ELSE IF k % 3 = 2 THEN [len |-> 32, bits |-> "B"]
    ELSE [len |-> 5, bits |-> "C"]

\* The plaintexts the callers encrypt.
Plaintexts == {[kind |-> "plain", text |-> "p1"], [kind |-> "plain", text |-> "p2"]}
\* The nonces rand.Reader may deliver.
Nonces == {"n1"}
\* rand.Reader failing (io.ReadFull returns an error)
RandFail == "randfail"
\* The time.Duration values (in ticks) passed to RotateIn: far in the past
\* (before the epoch), half a second ago, now, one second of grace.
Durations == {0 - (StartClock + TicksPerSec), -1, 0, TicksPerSec}

(***************************************************************************)
(* Errors (the strings of the source).                                     *)
(***************************************************************************)
NoErr == "nil"
ErrKeySize == "crypto/aes: invalid key size"
ErrRand == "rand.Reader: read failed"
ErrTooShort == "the cipher text value is too short"
ErrOpen == "cipher: message authentication failed"
ErrEmptyKeyset == "invalid keyset: empty"
ErrNoValidKey == "no valid key in keyset"
ErrNoValidDecryptionKey == "no valid decryption key"

\* a nil []byte
NilBytes == [kind |-> "nil"]

(***************************************************************************)
(* The AES-GCM helpers, symbolically: a sealed value names the key that    *)
(* sealed it, the nonce and the plaintext, and opens under that key only.  *)
(***************************************************************************)
\* aes.NewCipher: the key sizes AES accepts
NewCipherOk(key) == key.len \in {16, 24, 32}

\* gcm.Seal(nonce, nonce, val, nil)
Seal(nonce, val, key) ==
    [kind |-> "sealed", nonce |-> nonce, key |-> key, pt |-> val]

\* func Encrypt(val, key []byte) ([]byte, error); rnd is what rand.Reader does
Encrypt(val, key, rnd) ==
    IF ~NewCipherOk(key) THEN [res |-> NilBytes, err |-> ErrKeySize]
    ELSE IF rnd = RandFail THEN [res |-> NilBytes, err |-> ErrRand]
    ELSE [res |-> Seal(rnd, val, key), err |-> NoErr]

\* func Decrypt(val []byte, key []byte) ([]byte, error)
Decrypt(val, key) ==
    IF ~NewCipherOk(key) THEN [res |-> NilBytes, err |-> ErrKeySize]
    ELSE IF val.kind = "short" THEN [res |-> NilBytes, err |-> ErrTooShort]
    ELSE IF val.kind = "sealed" /\ val.key = key
         THEN [res |-> val.pt, err |-> NoErr]
    ELSE [res |-> NilBytes, err |-> ErrOpen]

\* Every value Encrypt can return under a usable key.
SealedValues ==
    { Seal(n, p, KeyBytes(k)) : n \in Nonces, p \in Plaintexts,
                                k \in {j \in KeyIds : NewCipherOk(KeyBytes(j))} }
\* The values the callers pass to Keyset.Decrypt: sealed values, a value
\* shorter than a nonce, and a value no key authenticates (tampered).
CipherInputs == SealedValues \cup {[kind |-> "short"], [kind |-> "tampered"]}

(***************************************************************************)
(* Time.                                                                   *)
(***************************************************************************)
\* time.Time.Unix(): whole seconds since the epoch, rounded down
Unix(t) == t \div TicksPerSec

(***************************************************************************)
(* Key.                                                                    *)
(***************************************************************************)
\* func NewKey(key256 []byte) *Key
NewKey(key256, nowT) ==
    [Value |-> key256, CreatedUnix |-> Unix(nowT), ExpiresUnix |-> 0]

\* the test of Keyset.Encrypt on the front key (line 126)
EncryptExpired(k, now) == k.ExpiresUnix > 0 /\ k.ExpiresUnix < now
\* mutant: a key that expires in the current second is skipped already
DecryptSkips_OffByOne(k, now) == k.ExpiresUnix > 0 /\ k.ExpiresUnix <= now
\* the test of Keyset.Decrypt on each key (line 140)
DecryptSkips(k, now) == k.ExpiresUnix > 0 /\ k.ExpiresUnix < now
\* mutant: Purge drops every key that has an expiry, passed or not
PurgeDrops_AllRetired(k, now) == k.ExpiresUnix > 0
\* mutant: Purge drops a key that expires in the current second already
PurgeDrops_OffByOne(k, now) == k.ExpiresUnix > 0 /\ k.ExpiresUnix <= now
\* the test of Keyset.Purge on each key (line 199)
PurgeDrops(k, now) == k.ExpiresUnix > 0 /\ k.ExpiresUnix < now

(***************************************************************************)
(* Keyset methods as functions of the slice ks (of KeyIds), the heap hp    *)
(* and the instant nowT at which time.Now() is read.                       *)
(***************************************************************************)
\* func NewKeyset() *Keyset
NewKeyset == << >>
\* func NewKeysetWithKey(k *Key) *Keyset
NewKeysetWithKey(k) == << k >>

\* mutant: Keyset.Encrypt takes the last key of the slice
EncryptKeyIndex_Last(ks) == Len(ks)
\* the key Keyset.Encrypt takes (line 125): ks.keys[0], slot 1 of the model
EncryptKeyIndex(ks) == 1

\* mutant: Keyset.Encrypt reports an empty keyset as having no valid key
KeysetEncrypt_EmptyIsNoValidKey(ks, hp, val, nowT, rnd) ==
    IF Len(ks) = 0 THEN [res |-> NilBytes, err |-> ErrNoValidKey]
    ELSE LET k == hp[ks[EncryptKeyIndex(ks)]] IN
         IF EncryptExpired(k, Unix(nowT))
         THEN [res |-> NilBytes, err |-> ErrNoValidKey]
         ELSE Encrypt(val, k.Value, rnd)

\* func (ks *Keyset) Encrypt(val []byte) ([]byte, error)
KeysetEncrypt(ks, hp, val, nowT, rnd) ==
    IF Len(ks) = 0 THEN [res |-> NilBytes, err |-> ErrEmptyKeyset]
    ELSE LET k == hp[ks[EncryptKeyIndex(ks)]] IN
         IF EncryptExpired(k, Unix(nowT))
         THEN [res |-> NilBytes, err |-> ErrNoValidKey]
         ELSE Encrypt(val, k.Value, rnd)

\* One pass of the loop of Keyset.Decrypt at slot i; tried lists the slots on
\* which Decrypt was called so far.
RECURSIVE DecryptLoop(_, _, _, _, _, _)
DecryptLoop(ks, hp, val, now, i, tried) ==
    IF i > Len(ks)
    THEN [res |-> NilBytes, err |-> ErrNoValidDecryptionKey, tried |-> tried]
    ELSE LET k == hp[ks[i]] IN
         IF DecryptSkips(k, now)
         THEN DecryptLoop(ks, hp, val, now, i + 1, tried)
         ELSE LET r == Decrypt(val, k.Value) IN
              IF r.err = NoErr
              THEN [res |-> r.res, err |-> NoErr, tried |-> Append(tried, i)]
              ELSE DecryptLoop(ks, hp, val, now, i + 1, Append(tried, i))

\* func (ks *Keyset) Decrypt(val []byte) (res []byte, err error)
KeysetDecrypt(ks, hp, val, nowT) ==
    DecryptLoop(ks, hp, val, Unix(nowT), 1, << >>)

\* the write of RotateIn to the previous front key (line 186)
RotateInExpiry(ks, hp, expireAfter, nowT) ==
    [hp EXCEPT ![ks[1]].ExpiresUnix = Unix(nowT + expireAfter)]

\* mutant: the new key is appended behind the existing keys
RotateIn_Appends(ks, hp, key, expireAfter, nowT) ==
    LET keys0 == << key >> IN
    IF Len(ks) > 0
    THEN [keys |-> ks \o keys0,
          heap |-> RotateInExpiry(ks, hp, expireAfter, nowT)]
    ELSE [keys |-> keys0, heap |-> hp]

\* func (ks *Keyset) RotateIn(key *Key, expireAfter time.Duration)
RotateIn(ks, hp, key, expireAfter, nowT) ==
    LET keys0 == << key >> IN
    IF Len(ks) > 0
    THEN [keys |-> keys0 \o ks,
          heap |-> RotateInExpiry(ks, hp, expireAfter, nowT)]
    ELSE [keys |-> keys0, heap |-> hp]

\* One pass of the loop of Keyset.Purge at slot i: arr is the backing array,
\* which the loop both ranges over and writes to; end counts the survivors.
PurgeBody(arr, hp, now, i, end) ==
    IF PurgeDrops(hp[arr[i]], now)
    THEN [arr |-> arr, end |-> end]
    ELSE [arr |-> [arr EXCEPT ![end + 1] = arr[i]], end |-> end + 1]

RECURSIVE PurgeLoop(_, _, _, _, _)
PurgeLoop(arr, hp, now, i, end) ==
    IF i > Len(arr) THEN [arr |-> arr, end |-> end]
    ELSE LET b == PurgeBody(arr, hp, now, i, end) IN
         PurgeLoop(b.arr, hp, now, i + 1, b.end)

\* func (ks *Keyset) Purge()
Purge(ks, hp, nowT) ==
    LET r == PurgeLoop(ks, hp, Unix(nowT), 1, 0) IN SubSeq(r.arr, 1, r.end)

(***************************************************************************)
(* State.                                                                  *)
(***************************************************************************)
VARIABLES
    heap,      \* the Key objects: KeyId -> [Value, CreatedUnix, ExpiresUnix]
    keys,      \* ks.keys: the keyset's slice of *Key
    clock,     \* the instant time.Now() returns, in ticks
    ret,       \* the call that has just returned: its arguments and results
    newest,    \* ghost: the Key most recently installed or rotated in ({} or {k})
    installed, \* ghost: the Keys ever installed or rotated into the keyset
    pc,        \* concurrent callers: where each goroutine is in its call
    call,      \* concurrent callers: the arguments and locals of each call
    mu,        \* the keyset's sync.RWMutex: its writer(s) and its readers
    hist,      \* ghost: the goroutines that took the write lock, in order
    other      \* a second Keyset's slice of *Key, over the same Key objects

\* the state of the concurrent callers
cvars == << pc, call, mu, hist >>
vars ==
    << heap, keys, clock, ret, newest, installed, pc, call, mu, hist, other >>

\* the goroutines
Procs == 1 .. NumProcs

\* the locals of a goroutine that is in no call.  snap, after and seen are
\* ghosts: the keyset when the call took its lock, the RotateIn calls that had
\* returned when the call began, and the number of write locks taken before
\* the call took its lock.
IdleCall ==
    [op |-> "none", arg |-> NilBytes, now |-> 0, view |-> << >>, i |-> 0,
     end |-> 0, front |-> {}, out |-> [res |-> NilBytes, err |-> NoErr],
     snap |-> [keys |-> << >>, heap |-> << >>], after |-> {}, seen |-> 0]

\* no goroutine is in a call and the mutex is free
Quiet ==
    /\ pc = [p \in Procs |-> "idle"]
    /\ call = [p \in Procs |-> IdleCall]
    /\ mu = [w |-> {}, r |-> {}]
    /\ hist = << >>

\* ret when no call has just returned: before the first call, and once time
\* has moved on since the last one.  tried: the slots on which Keyset.Decrypt
\* called Decrypt, in order.
\* the program has built one keyset only
OneKeyset == other = << >>

NoRet ==
    [op |-> "none", arg |-> NilBytes, out |-> [res |-> NilBytes, err |-> NoErr],
     tried |-> << >>]

\* The keys are made with NewKey; the keyset with NewKeyset or
\* NewKeysetWithKey.
Init ==
    /\ clock = StartClock
    /\ heap = [k \in KeyIds |-> NewKey(KeyBytes(k), StartClock)]
    /\ \/ keys = NewKeyset /\ newest = {} /\ installed = {}
       \/ \E k \in KeyIds :
             keys = NewKeysetWithKey(k) /\ newest = {k} /\ installed = {k}
    /\ ret = NoRet
    /\ Quiet
    /\ OneKeyset

\* time passes
Tick ==
    /\ clock < MaxClock
    /\ clock' = clock + 1
    /\ ret' = NoRet
    /\ UNCHANGED << heap, keys, newest, installed >>
    /\ UNCHANGED << cvars, other >>

\* a caller calls ks.Encrypt(val)
KsEncrypt(val, rnd) ==
    /\ ret' = [NoRet EXCEPT !.op = "Encrypt", !.arg = val,
                            !.out = KeysetEncrypt(keys, heap, val, clock, rnd)]
    /\ UNCHANGED << heap, keys, clock, newest, installed >>
    /\ UNCHANGED << cvars, other >>

\* mutant: Decrypt removes the expired keys it skips
KsDecrypt_DropsSkipped(val) ==
    LET r == KeysetDecrypt(keys, heap, val, clock) IN
    /\ ret' = [op |-> "Decrypt", arg |-> val,
               out |-> [res |-> r.res, err |-> r.err], tried |-> r.tried]
    /\ keys' = Purge(keys, heap, clock)
    /\ UNCHANGED << heap, clock, newest, installed >>
    /\ UNCHANGED << cvars, other >>

\* a caller calls ks.Decrypt(val)
KsDecrypt(val) ==
    LET r == KeysetDecrypt(keys, heap, val, clock) IN
    /\ ret' = [op |-> "Decrypt", arg |-> val,
               out |-> [res |-> r.res, err |-> r.err], tried |-> r.tried]
    /\ UNCHANGED << heap, keys, clock, newest, installed >>
    /\ UNCHANGED << cvars, other >>

\* a caller calls ks.RotateIn(key, expireAfter)
KsRotateIn(key, expireAfter) ==
    LET r == RotateIn(keys, heap, key, expireAfter, clock) IN
    /\ Len(keys) < MaxKeys
    /\ keys' = r.keys
    /\ heap' = r.heap
    /\ newest' = {key}
    /\ installed' = installed \cup {key}
    /\ ret' = [NoRet EXCEPT !.op = "RotateIn",
                            !.arg = [key |-> key, expireAfter |-> expireAfter]]
    /\ UNCHANGED clock
    /\ UNCHANGED << cvars, other >>

\* a caller calls ks.Purge()
KsPurge ==
    /\ keys' = Purge(keys, heap, clock)
    /\ ret' = [NoRet EXCEPT !.op = "Purge"]
    /\ UNCHANGED << heap, clock, newest, installed >>
    /\ UNCHANGED << cvars, other >>

Next ==
    \/ Tick
    \/ \E val \in Plaintexts, rnd \in Nonces \cup {RandFail} : KsEncrypt(val, rnd)
    \/ \E val \in CipherInputs : KsDecrypt(val)
    \/ \E key \in KeyIds, expireAfter \in Durations : KsRotateIn(key, expireAfter)
    \/ KsPurge

Spec == Init /\ [][Next]_vars

(***************************************************************************)
(* Concurrent callers.  Each goroutine makes one call on the keyset; a     *)
(* call is a sequence of steps, each with at most one access to ks.keys    *)
(* or to a field of a Key.  The mutex is a sync.RWMutex: RLock waits while *)
(* a writer holds it, Lock waits while anyone holds it.  (The Go mutex     *)
(* also makes RLock wait for a waiting writer; that only removes           *)
(* behaviours, and is left out.)                                           *)
(***************************************************************************)
\* mutant: RLock does not wait for the writer
CanRLock_IgnoresWriter(m) == TRUE
\* ks.RLock() can return (lines 119, 135)
CanRLock(m) == m.w = {}
\* mutant: Lock does not wait for the readers
CanLock_IgnoresReaders(m) == m.w = {}
\* mutant: Lock does not wait for another writer
CanLock_IgnoresWriter(m) == m.r = {}
\* ks.Lock() can return (lines 183, 194)
CanLock(m) == m.w = {} /\ m.r = {}

\* The plaintext, the sealed values and the durations the concurrent callers
\* pass.
ConcPlain == [kind |-> "plain", text |-> "p1"]
ConcCiphers ==
    { Seal(n, ConcPlain, KeyBytes(k)) :
        n \in Nonces, k \in {j \in KeyIds : NewCipherOk(KeyBytes(j))} }
\* a keyset is set up with or without a second of grace for the old key; the
\* concurrent callers retire the old key at once
SetupDurations == {-1, TicksPerSec}
ConcDurations == {-1}

\* The keysets the concurrent calls start on: a new keyset, empty or with one
\* key, and such a keyset after one RotateIn.
FreshHeap == [k \in KeyIds |-> NewKey(KeyBytes(k), StartClock)]
Constructed ==
    {[keys |-> NewKeyset, heap |-> FreshHeap]}
        \cup {[keys |-> NewKeysetWithKey(k), heap |-> FreshHeap] : k \in {1}}
Setups ==
    Constructed
        \cup { RotateIn(s.keys, s.heap, k, d, StartClock) :
                 s \in Constructed, k \in KeyIds, d \in SetupDurations }

InitConc ==
    /\ clock = StartClock
    /\ \E s \in Setups : keys = s.keys /\ heap = s.heap
    /\ ret = NoRet /\ newest = {} /\ installed = {}
    /\ Quiet
    /\ OneKeyset

\* goroutine p goes to label lbl with locals c
Goto(p, lbl, c) ==
    /\ pc' = [pc EXCEPT ![p] = lbl]
    /\ call' = [call EXCEPT ![p] = c]

\* the RotateIn calls that have returned
ReturnedRotations == { q \in Procs : pc[q] = "done" /\ call[q].op = "RotateIn" }
\* the RotateIn calls that have begun and not returned
RotationsUnderWay ==
    { q \in Procs : pc[q] \notin {"idle", "done"} /\ call[q].op = "RotateIn" }

\* Goroutine p can begin its call: the goroutines are numbered in the order
\* in which they begin.
CanCall(p) == pc[p] = "idle" /\ \A q \in Procs : q < p => pc[q] # "idle"

\* what is left of a call's locals when it has returned: a RotateIn leaves
\* its arguments, the key that was at the front and the instant it read
Returned(c) ==
    IF c.op = "RotateIn"
    THEN [IdleCall EXCEPT !.op = c.op, !.arg = c.arg, !.front = c.front,
                          !.now = c.now]
    ELSE [IdleCall EXCEPT !.op = c.op]

\* goroutine p calls ks.Encrypt(val)
CallEncrypt(p, val, rnd) ==
    /\ CanCall(p)
    /\ Goto(p, "rlock", [IdleCall EXCEPT !.op = "Encrypt",
                                         !.arg = [val |-> val, rnd |-> rnd],
                                         !.after = ReturnedRotations])
    /\ UNCHANGED
         << heap, keys, clock, ret, newest, installed, mu, hist, other >>

\* goroutine p calls ks.Decrypt(val)
CallDecrypt(p, val) ==
    /\ CanCall(p)
    /\ Goto(p, "rlock", [IdleCall EXCEPT !.op = "Decrypt", !.arg = val,
                                         !.after = ReturnedRotations])
    /\ UNCHANGED
         << heap, keys, clock, ret, newest, installed, mu, hist, other >>

\* goroutine p calls ks.RotateIn(key, expireAfter); line 182 makes the local
\* slice keys (view) before the lock is taken
CallRotateIn(p, key, expireAfter) ==
    /\ CanCall(p)
    /\ Len(keys) + Cardinality(RotationsUnderWay) < MaxKeys
    /\ Goto(p, "lock",
            [IdleCall EXCEPT !.op = "RotateIn",
                             !.arg = [key |-> key, expireAfter |-> expireAfter],
                             !.view = << key >>,
                             !.after = ReturnedRotations])
    /\ UNCHANGED
         << heap, keys, clock, ret, newest, installed, mu, hist, other >>

\* goroutine p calls ks.Purge()
CallPurge(p) ==
    /\ CanCall(p)
    /\ Goto(p, "lock", [IdleCall EXCEPT !.op = "Purge",
                                        !.after = ReturnedRotations])
    /\ UNCHANGED
         << heap, keys, clock, ret, newest, installed, mu, hist, other >>

\* ks.RLock() returns (lines 119, 135)
RLock(p) ==
    /\ pc[p] = "rlock"
    /\ CanRLock(mu)
    /\ mu' = [mu EXCEPT !.r = @ \cup {p}]
    /\ Goto(p, IF call[p].op = "Encrypt" THEN "e_front" ELSE "d_range",
            [call[p] EXCEPT !.snap = [keys |-> keys, heap |-> heap],
                            !.seen = Len(hist)])
    /\ UNCHANGED << heap, keys, clock, ret, newest, installed, hist, other >>

\* mutant: the error return on an empty keyset leaves without RUnlock
EncFront_ReturnsLocked(p) ==
    /\ pc[p] = "e_front"
    /\ IF Len(keys) = 0
       THEN Goto(p, "done", Returned(call[p]))
       ELSE Goto(p, "e_seal",
                 [call[p] EXCEPT !.front = {keys[EncryptKeyIndex(keys)]}])
    /\ UNCHANGED
         << heap, keys, clock, ret, newest, installed, mu, hist, other >>

\* Keyset.Encrypt, lines 122-125: the length test and k := ks.keys[0]
EncFront(p) ==
    /\ pc[p] = "e_front"
    /\ IF Len(keys) = 0
       THEN Goto(p, "runlock",
                 [call[p] EXCEPT !.out = [res |-> NilBytes, err |-> ErrEmptyKeyset]])
       ELSE Goto(p, "e_seal",
                 [call[p] EXCEPT !.front = {keys[EncryptKeyIndex(keys)]}])
    /\ UNCHANGED
         << heap, keys, clock, ret, newest, installed, mu, hist, other >>

\* Keyset.Encrypt, lines 126-129: the expiry test on k and Encrypt(val, k.Value)
EncSeal(p) ==
    /\ pc[p] = "e_seal"
    /\ \E id \in call[p].front :
          Goto(p, "runlock",
               [call[p] EXCEPT
                  !.now = clock,
                  !.out = IF EncryptExpired(heap[id], Unix(clock))
                          THEN [res |-> NilBytes, err |-> ErrNoValidKey]
                          ELSE Encrypt(call[p].arg.val, heap[id].Value,
                                       call[p].arg.rnd)])
    /\ UNCHANGED
         << heap, keys, clock, ret, newest, installed, mu, hist, other >>

\* Keyset.Decrypt, lines 138-139: now is read and the range over ks.keys
\* begins (the range expression is evaluated once)
DecRange(p) ==
    /\ pc[p] = "d_range"
    /\ Goto(p, "d_loop", [call[p] EXCEPT !.now = clock, !.view = keys, !.i = 1])
    /\ UNCHANGED
         << heap, keys, clock, ret, newest, installed, mu, hist, other >>

\* Keyset.Decrypt, lines 139-147: one pass of the loop, or the end of it
DecIter(p) ==
    /\ pc[p] = "d_loop"
    /\ LET c == call[p] IN
       IF c.i > Len(c.view)
       THEN Goto(p, "runlock",
                 [c EXCEPT !.out = [res |-> NilBytes,
                                    err |-> ErrNoValidDecryptionKey]])
       ELSE LET k == heap[c.view[c.i]] IN
            IF DecryptSkips(k, Unix(c.now))
            THEN Goto(p, "d_loop", [c EXCEPT !.i = @ + 1])
            ELSE LET r == Decrypt(c.arg, k.Value) IN
                 IF r.err = NoErr
                 THEN Goto(p, "runlock", [c EXCEPT !.out = r])
                 ELSE Goto(p, "d_loop", [c EXCEPT !.i = @ + 1])
    /\ UNCHANGED
         << heap, keys, clock, ret, newest, installed, mu, hist, other >>

\* the deferred ks.RUnlock() (lines 120, 136) and the return
RUnlock(p) ==
    /\ pc[p] = "runlock"
    /\ mu' = [mu EXCEPT !.r = @ \ {p}]
    /\ Goto(p, "done", Returned(call[p]))
    /\ UNCHANGED << heap, keys, clock, ret, newest, installed, hist, other >>

\* ks.Lock() returns (lines 183, 194)
Lock(p) ==
    /\ pc[p] = "lock"
    /\ CanLock(mu)
    /\ mu' = [mu EXCEPT !.w = @ \cup {p}]
    /\ hist' = Append(hist, p)
    /\ Goto(p, IF call[p].op = "RotateIn" THEN "r_expire" ELSE "p_range",
            [call[p] EXCEPT !.snap = [keys |-> keys, heap |-> heap],
                            !.seen = Len(hist)])
    /\ UNCHANGED << heap, keys, clock, ret, newest, installed, other >>

\* Keyset.RotateIn, lines 185-188: on a keyset that is not empty, the write
\* of the previous front key's ExpiresUnix and the append of ks.keys to the
\* local slice
RotExpire(p) ==
    /\ pc[p] = "r_expire"
    /\ IF Len(keys) > 0
       THEN /\ heap' = RotateInExpiry(keys, heap, call[p].arg.expireAfter, clock)
            /\ Goto(p, "r_assign", [call[p] EXCEPT !.now = clock,
                                                   !.front = {keys[1]},
                                                   !.view = @ \o keys])
       ELSE /\ heap' = heap
            /\ Goto(p, "r_assign", call[p])
    /\ UNCHANGED << keys, clock, ret, newest, installed, mu, hist, other >>

\* Keyset.RotateIn, line 189: ks.keys = keys
RotAssign(p) ==
    /\ pc[p] = "r_assign"
    /\ keys' = call[p].view
    /\ pc' = [pc EXCEPT ![p] = "unlock"]
    /\ UNCHANGED
         << heap, clock, ret, newest, installed, call, mu, hist, other >>

\* Keyset.Purge, lines 196-198: now is read and the range over ks.keys begins
PurgeRange(p) ==
    /\ pc[p] = "p_range"
    /\ Goto(p, "p_loop", [call[p] EXCEPT !.now = clock, !.view = keys,
                                         !.i = 1, !.end = 0])
    /\ UNCHANGED
         << heap, keys, clock, ret, newest, installed, mu, hist, other >>

\* Keyset.Purge, lines 198-204: one pass of the loop, which writes ks.keys in
\* place, or the end of it.  An index beyond the slice panics.
PurgeIter(p) ==
    /\ pc[p] = "p_loop"
    /\ LET c == call[p] IN
       IF c.i > Len(c.view)
       THEN keys' = keys /\ Goto(p, "p_trunc", c)
       ELSE IF c.i > Len(keys)
       THEN keys' = keys /\ Goto(p, "panic", c)
       ELSE LET b == PurgeBody(keys, heap, Unix(c.now), c.i, c.end) IN
            /\ keys' = b.arr
            /\ Goto(p, "p_loop", [c EXCEPT !.i = @ + 1, !.end = b.end])
    /\ UNCHANGED << heap, clock, ret, newest, installed, mu, hist, other >>

\* Keyset.Purge, line 205: ks.keys = ks.keys[:end]
PurgeTrunc(p) ==
    /\ pc[p] = "p_trunc"
    /\ IF call[p].end > Len(keys)
       THEN keys' = keys /\ pc' = [pc EXCEPT ![p] = "panic"]
       ELSE keys' = SubSeq(keys, 1, call[p].end)
              /\ pc' = [pc EXCEPT ![p] = "unlock"]
    /\ UNCHANGED
         << heap, clock, ret, newest, installed, call, mu, hist, other >>

\* the deferred ks.Unlock() (lines 184, 195) and the return
Unlock(p) ==
    /\ pc[p] = "unlock"
    /\ mu' = [mu EXCEPT !.w = @ \ {p}]
    /\ Goto(p, "done", Returned(call[p]))
    /\ UNCHANGED << heap, keys, clock, ret, newest, installed, hist, other >>

\* a second passes while the calls run
ConcTick ==
    /\ clock + TicksPerSec <= MaxClock
    /\ clock' = clock + TicksPerSec
    /\ UNCHANGED << heap, keys, ret, newest, installed >>
    /\ UNCHANGED << cvars, other >>

NextConc ==
    \/ ConcTick
    \/ \E p \in Procs, rnd \in Nonces : CallEncrypt(p, ConcPlain, rnd)
    \/ \E p \in Procs, val \in ConcCiphers : CallDecrypt(p, val)
    \/ \E p \in Procs, key \in KeyIds, expireAfter \in ConcDurations :
          CallRotateIn(p, key, expireAfter)
    \/ \E p \in Procs : CallPurge(p)
    \/ \E p \in Procs : RLock(p)
    \/ \E p \in Procs : EncFront(p)
    \/ \E p \in Procs : EncSeal(p)
    \/ \E p \in Procs : DecRange(p)
    \/ \E p \in Procs : DecIter(p)
    \/ \E p \in Procs : RUnlock(p)
    \/ \E p \in Procs : Lock(p)
    \/ \E p \in Procs : RotExpire(p)
    \/ \E p \in Procs : RotAssign(p)
    \/ \E p \in Procs : PurgeRange(p)
    \/ \E p \in Procs : PurgeIter(p)
    \/ \E p \in Procs : PurgeTrunc(p)
    \/ \E p \in Procs : Unlock(p)

SpecConc == InitConc /\ [][NextConc]_vars

(***************************************************************************)
(* The concurrent callers under fair scheduling, for termination.  The     *)
(* steps are those of SpecConc; the keysets and arguments are fewer: an    *)
(* empty keyset, one key, and two keys of which the retired one is         *)
(* expired; one sealed value; one key to rotate in.                        *)
(***************************************************************************)
LiveSetups ==
    { [keys |-> NewKeyset, heap |-> FreshHeap],
      [keys |-> NewKeysetWithKey(1), heap |-> FreshHeap],
      RotateIn(NewKeysetWithKey(1), FreshHeap, 2, -1, StartClock) }
LiveCiphers == { Seal(n, ConcPlain, KeyBytes(1)) : n \in Nonces }
LiveKeys == {2}

InitLive ==
    /\ clock = StartClock
    /\ \E s \in LiveSetups : keys = s.keys /\ heap = s.heap
    /\ ret = NoRet /\ newest = {} /\ installed = {}
    /\ Quiet
    /\ OneKeyset

NextLive ==
    \/ ConcTick
    \/ \E p \in Procs, rnd \in Nonces : CallEncrypt(p, ConcPlain, rnd)
    \/ \E p \in Procs, val \in LiveCiphers : CallDecrypt(p, val)
    \/ \E p \in Procs, key \in LiveKeys, expireAfter \in ConcDurations :
          CallRotateIn(p, key, expireAfter)
    \/ \E p \in Procs : CallPurge(p)
    \/ \E p \in Procs : RLock(p)
    \/ \E p \in Procs : EncFront(p)
    \/ \E p \in Procs : EncSeal(p)
    \/ \E p \in Procs : DecRange(p)
    \/ \E p \in Procs : DecIter(p)
    \/ \E p \in Procs : RUnlock(p)
    \/ \E p \in Procs : Lock(p)
    \/ \E p \in Procs : RotExpire(p)
    \/ \E p \in Procs : RotAssign(p)
    \/ \E p \in Procs : PurgeRange(p)
    \/ \E p \in Procs : PurgeIter(p)
    \/ \E p \in Procs : PurgeTrunc(p)
    \/ \E p \in Procs : Unlock(p)

\* The scheduler runs some goroutine that can take a step (or time passes)
\* as long as there is one.
SpecLive == InitLive /\ [][NextLive]_vars /\ WF_vars(NextLive)

(***************************************************************************)
(* Two keysets of one program.  A keyset holds *Key pointers, so the same  *)
(* Key object can sit in both: NewKeysetWithKey and RotateIn store the     *)
(* pointer they are given.  Each call runs on one keyset, under that       *)
(* keyset's own mutex, and is applied here as a whole.                     *)
(***************************************************************************)
Keysets == {"keys", "other"}
TwoKeys == {1, 2}
TwoDurations == {-1, TicksPerSec}
TwoCiphers == { Seal(n, ConcPlain, KeyBytes(k)) : n \in Nonces, k \in TwoKeys }

\* the slice of keyset w
Slice(w) == IF w = "keys" THEN keys ELSE other

\* keyset w's slice becomes s; the other keyset's slice stays
Store(w, s) ==
    IF w = "keys" THEN keys' = s /\ other' = other
                  ELSE other' = s /\ keys' = keys

InitTwo ==
    /\ clock = StartClock
    /\ heap = FreshHeap
    /\ \E a, b \in {NewKeyset} \cup { NewKeysetWithKey(k) : k \in TwoKeys } :
          keys = a /\ other = b
    /\ ret = NoRet /\ newest = {} /\ installed = {}
    /\ Quiet

\* a caller calls Encrypt(val) on keyset w
OnEncrypt(w, val, rnd) ==
    /\ ret' = [NoRet EXCEPT
                 !.op = "Encrypt", !.arg = [ks |-> w, val |-> val],
                 !.out = KeysetEncrypt(Slice(w), heap, val, clock, rnd)]
    /\ UNCHANGED << heap, keys, other, clock, newest, installed >>
    /\ UNCHANGED cvars

\* a caller calls Decrypt(val) on keyset w
OnDecrypt(w, val) ==
    LET r == KeysetDecrypt(Slice(w), heap, val, clock) IN
    /\ ret' = [op |-> "Decrypt", arg |-> [ks |-> w, val |-> val],
               out |-> [res |-> r.res, err |-> r.err], tried |-> r.tried]
    /\ UNCHANGED << heap, keys, other, clock, newest, installed >>
    /\ UNCHANGED cvars

\* a caller calls RotateIn(key, expireAfter) on keyset w
OnRotateIn(w, key, expireAfter) ==
    LET r == RotateIn(Slice(w), heap, key, expireAfter, clock) IN
    /\ Len(Slice(w)) < MaxKeys
    /\ Store(w, r.keys)
    /\ heap' = r.heap
    /\ ret' = [NoRet EXCEPT
                 !.op = "RotateIn",
                 !.arg = [ks |-> w, key |-> key, expireAfter |-> expireAfter]]
    /\ UNCHANGED << clock, newest, installed >>
    /\ UNCHANGED cvars

\* a caller calls Purge() on keyset w
OnPurge(w) ==
    /\ Store(w, Purge(Slice(w), heap, clock))
    /\ ret' = [NoRet EXCEPT !.op = "Purge", !.arg = [ks |-> w]]
    /\ UNCHANGED << heap, clock, newest, installed >>
    /\ UNCHANGED cvars

\* a second passes
TwoTick ==
    /\ clock + TicksPerSec <= MaxClock
    /\ clock' = clock + TicksPerSec
    /\ ret' = NoRet
    /\ UNCHANGED << heap, keys, other, newest, installed >>
    /\ UNCHANGED cvars

NextTwo ==
    \/ TwoTick
    \/ \E w \in Keysets, rnd \in Nonces : OnEncrypt(w, ConcPlain, rnd)
    \/ \E w \in Keysets, val \in TwoCiphers : OnDecrypt(w, val)
    \/ \E w \in Keysets, key \in TwoKeys, expireAfter \in TwoDurations :
          OnRotateIn(w, key, expireAfter)
    \/ \E w \in Keysets : OnPurge(w)

SpecTwo == InitTwo /\ [][NextTwo]_vars

(***************************************************************************)
(* Vocabulary of the properties.                                           *)
(***************************************************************************)
\* "not expired" as the specification words it: expiresAt == 0 or
\* expiresAt >= now (now in whole seconds)
NotExpired(k, now) == k.ExpiresUnix = 0 \/ k.ExpiresUnix >= now
\* "expired" as the specification words it (isExpired)
IsExpired(k, now) == k.ExpiresUnix # 0 /\ k.ExpiresUnix < now
\* the whole seconds time.Now().Unix() returns
Now == Unix(clock)
\* the slots of the keyset
Slots == 1 .. Len(keys)
\* the Key in slot i
KeyAt(i) == heap[keys[i]]
\* a successful return of plaintext or ciphertext v
Ok(v) == [res |-> v, err |-> NoErr]

\* C1: Keyset round trip across rotation.  A key that Keyset.Encrypt seals
\* under sits in slot 0, so it is one of the installed keys; and a value sealed
\* under an installed key K decrypts to exactly its plaintext whenever K is
\* not expired when Keyset.Decrypt is called, whatever RotateIn, Purge and
\* clock steps came in between.
C1_RoundTrip ==
    /\ (ret.op = "Encrypt" /\ ret.out.err = NoErr) =>
          /\ keys # << >>
          /\ keys[1] \in installed
          /\ ret.out.res = Seal(ret.out.res.nonce, ret.arg, KeyAt(1).Value)
    /\ (ret.op = "Decrypt" /\ ret.arg \in SealedValues) =>
          \A K \in installed :
              (heap[K].Value = ret.arg.key /\ NotExpired(heap[K], Now))
                  => ret.out = Ok(ret.arg.pt)

\* C1 happens: a value sealed under a retired, unexpired key (slot 1 or
\* later, the front key cannot open it) has just been decrypted.
C1_Witness ==
    /\ ret.op = "Decrypt" /\ ret.arg \in SealedValues
    /\ ret.out = Ok(ret.arg.pt)
    /\ Len(keys) >= 2
    /\ KeyAt(1).Value # ret.arg.key
    /\ \E K \in installed :
          heap[K].Value = ret.arg.key /\ heap[K].ExpiresUnix >= Now

\* what a keyset holding the single key k makes of val now
AloneDecrypt(k, val) == KeysetDecrypt(NewKeysetWithKey(k), heap, val, clock)

\* C2: Encrypt uses exactly the key at index 0.  With the key K2 most recently
\* rotated in at the front, every successful Keyset.Encrypt(P) returns a value
\* that a keyset holding only K2 decrypts to P and that a keyset holding only
\* a key behind it with other key material (the previous front K1) fails to
\* decrypt.
C2_EncryptUsesFront ==
    (ret.op = "Encrypt" /\ ret.out.err = NoErr
        /\ Len(keys) >= 2 /\ newest = {keys[1]}) =>
        /\ AloneDecrypt(keys[1], ret.out.res).err = NoErr
        /\ AloneDecrypt(keys[1], ret.out.res).res = ret.arg
        /\ \A i \in 2 .. Len(keys) :
              KeyAt(i).Value # KeyAt(1).Value =>
                  AloneDecrypt(keys[i], ret.out.res).err = ErrNoValidDecryptionKey

\* C2 happens: right after a rotation that gave the previous front key an
\* expiry, an Encrypt succeeded, and the previous front key is a usable,
\* unexpired key with other key material.
C2_Witness ==
    /\ ret.op = "Encrypt" /\ ret.out.err = NoErr
    /\ Len(keys) >= 2 /\ newest = {keys[1]}
    /\ KeyAt(2).Value # KeyAt(1).Value
    /\ NewCipherOk(KeyAt(2).Value)
    /\ KeyAt(2).ExpiresUnix > Now

\* C3: index 0 is always the most recently rotated-in key and encryption
\* never falls back to an older key: a successful Encrypt is sealed under the
\* most recently rotated-in key, and when that key is expired (its expiry a
\* second after the epoch that has passed) Encrypt fails, also after a Purge.
C3_NoFallback ==
    /\ keys # << >> => newest = {keys[1]}
    /\ (ret.op = "Encrypt" /\ ret.out.err = NoErr) =>
          \E k \in newest : ret.out.res.key = heap[k].Value
    /\ (ret.op = "Encrypt"
          /\ \E k \in newest : heap[k].ExpiresUnix > 0 /\ IsExpired(heap[k], Now))
          => ret.out.err # NoErr

\* The two readings of "expired": as the specification defines isExpired
\* (strict), and restricted to expiries after the epoch (ExpiresUnix > 0).
\* They differ on a Key whose ExpiresUnix is negative.
InThePast(k, now) == k.ExpiresUnix > 0 /\ k.ExpiresUnix < now
Expired(strict, k, now) == IF strict THEN IsExpired(k, now) ELSE InThePast(k, now)
\* the elements of a sequence
Range(q) == { q[i] : i \in 1 .. Len(q) }

\* Expiry enforcement under a reading of "expired": Encrypt fails with "no
\* valid key in keyset" when the key at index 0 is expired; Decrypt calls
\* Decrypt on no expired key, although the key is still in the keyset; and it
\* fails with "no valid decryption key" unless a key that is not expired
\* opens the value.
ExpiryEnforced(strict) ==
    /\ (ret.op = "Encrypt" /\ keys # << >> /\ Expired(strict, KeyAt(1), Now)) =>
          ret.out = [res |-> NilBytes, err |-> ErrNoValidKey]
    /\ ret.op = "Decrypt" =>
          /\ \A i \in Range(ret.tried) : ~Expired(strict, KeyAt(i), Now)
          /\ (\A i \in Slots : Expired(strict, KeyAt(i), Now)
                                \/ Decrypt(ret.arg, KeyAt(i).Value).err # NoErr)
                => ret.out = [res |-> NilBytes, err |-> ErrNoValidDecryptionKey]

\* C4: expiry enforcement.  When the key at index 0 has expiresAt in the past,
\* Encrypt fails with "no valid key in keyset"; Decrypt skips every expired
\* key that is still in the keyset, so a value sealed under an expired key
\* fails with "no valid decryption key" unless another, unexpired key opens
\* it.
C4_ExpiryEnforced == ExpiryEnforced(TRUE)

\* The same for expiries after the epoch only.
C4_AfterEpoch == ExpiryEnforced(FALSE)

\* the slots whose key is not expired
Candidates(strict) == { i \in Slots : ~Expired(strict, KeyAt(i), Now) }
\* the candidates whose key opens val
Openers(strict, val) ==
    { i \in Candidates(strict) : Decrypt(val, KeyAt(i).Value).err = NoErr }
\* the least element of a non-empty set of slots
Least(S) == CHOOSE i \in S : \A j \in S : i <= j
\* q lists exactly the slots of S, in increasing order
ListsInOrder(q, S) ==
    /\ Range(q) = S
    /\ \A a, b \in 1 .. Len(q) : a < b => q[a] < q[b]

\* Decrypt resolution under a reading of "expired": Keyset.Decrypt calls
\* Decrypt on the keys that are not expired only, in increasing index order;
\* it returns the plaintext of the first key that opens the value and tries
\* no key after it; it fails with "no valid decryption key" exactly when no
\* unexpired key opens the value; and it returns no other error.
DecryptResolution(strict) ==
    ret.op = "Decrypt" =>
        /\ IF Openers(strict, ret.arg) # {}
           THEN LET first == Least(Openers(strict, ret.arg)) IN
                /\ ret.out = Ok(Decrypt(ret.arg, KeyAt(first).Value).res)
                /\ ListsInOrder(ret.tried,
                                { i \in Candidates(strict) : i <= first })
           ELSE /\ ret.out = [res |-> NilBytes, err |-> ErrNoValidDecryptionKey]
                /\ ListsInOrder(ret.tried, Candidates(strict))
        /\ ret.out.err \in {NoErr, ErrNoValidDecryptionKey}

\* C5: Decrypt resolution.  Decrypt attempts the primitive's open only on
\* unexpired keys, in increasing index order, returns the plaintext of the
\* first key whose open succeeds without attempting any later key, and fails
\* with "no valid decryption key" exactly when no unexpired key opens the
\* value; no per-key primitive error is ever returned.
C5_DecryptResolution == DecryptResolution(TRUE)

\* The same for expiries after the epoch only.
C5_AfterEpoch == DecryptResolution(FALSE)

\* this step is a call of RotateIn that returns
RotateInStep == ret'.op = "RotateIn"

\* C6: RotateIn postcondition.  After RotateIn(newKey, expireAfter) on a
\* keyset of N >= 0 keys the keyset has N+1 keys, newKey is at index 0, the
\* keys that were at 0..N-1 are at 1..N in the same order, and if N > 0 the
\* previously-front key's ExpiresUnix is the second of now + expireAfter,
\* whatever it was before.
C6_RotateInPost ==
    [][RotateInStep =>
        /\ Len(keys') = Len(keys) + 1
        /\ keys'[1] = ret'.arg.key
        /\ \A i \in 1 .. Len(keys) : keys'[i + 1] = keys[i]
        /\ Len(keys) > 0 =>
              heap'[keys[1]].ExpiresUnix = Unix(clock + ret'.arg.expireAfter)
      ]_vars

\* C6 happens: RotateIn has just returned on a keyset that held two keys,
\* whose front key had been given an expiry by an earlier rotation (the same
\* Key sits in the slot behind it) and now has the new one.
C6_Witness ==
    /\ ret.op = "RotateIn"
    /\ Len(keys) = 3
    /\ keys[2] = keys[3] /\ keys[1] # keys[2]
    /\ ret.arg.expireAfter = TicksPerSec
    /\ KeyAt(2).ExpiresUnix = Unix(clock + ret.arg.expireAfter)

\* C7: RotateIn frame.  RotateIn changes the ExpiresUnix of the
\* previously-front key only: the ExpiresUnix of every key retired before
\* (previous indices >= 1) and of newKey itself are unchanged, and no key's
\* Value or CreatedUnix changes, also when the same Key is rotated in more
\* than once.
C7_RotateInFrame ==
    [][RotateInStep =>
        /\ \A i \in 2 .. Len(keys) :
              heap'[keys[i]].ExpiresUnix = heap[keys[i]].ExpiresUnix
        /\ heap'[ret'.arg.key].ExpiresUnix = heap[ret'.arg.key].ExpiresUnix
        /\ \A k \in KeyIds : /\ heap'[k].Value = heap[k].Value
                              /\ heap'[k].CreatedUnix = heap[k].CreatedUnix
      ]_vars

\* this step is a call of Purge that returns
PurgeStep == ret'.op = "Purge"

\* the keys of q that are not expired at now, in q's order
Unexpired(strict, q, hp, now) ==
    SelectSeq(q, LAMBDA k : ~Expired(strict, hp[k], now))

\* Purge under a reading of "expired": the keyset after Purge is the
\* subsequence of the keys before it that are not expired, in the same order.
PurgeExact(strict) ==
    PurgeStep => keys' = Unexpired(strict, keys, heap, Now)

\* C8: Purge removes exactly the expired keys and preserves order.  After
\* Purge at time now the keyset is the subsequence of the pre-purge keys for
\* which isExpired(key, now) is false, in the same relative order: no
\* unexpired key is removed and no expired key survives.
C8_PurgeExact == [][PurgeExact(TRUE)]_vars

\* The same for expiries after the epoch only.
C8_AfterEpoch == [][PurgeExact(FALSE)]_vars

(***************************************************************************)
(* Properties of the concurrent callers.                                   *)
(***************************************************************************)
\* the keyset as the goroutines share it
Shared == [keys |-> keys, heap |-> heap]
\* this step is the return of goroutine p's call
Returns(p) == pc[p] \in {"runlock", "unlock"} /\ pc'[p] = "done"
\* the calls that only read the keyset
Readers == {"Encrypt", "Decrypt"}

\* The call of goroutine p, now returning, did what the whole operation does
\* when it runs alone on the keyset that p found when it took its lock: an
\* Encrypt or Decrypt returns that result and leaves the keyset as found, a
\* RotateIn or Purge leaves the keyset that the operation makes of it.
AsIfAlone(p) ==
    LET c == call[p] IN
    CASE c.op = "Encrypt" ->
           /\ c.out = KeysetEncrypt(c.snap.keys, c.snap.heap, c.arg.val, c.now,
                                    c.arg.rnd)
           /\ Shared = c.snap
      [] c.op = "Decrypt" ->
           /\ LET r == KeysetDecrypt(c.snap.keys, c.snap.heap, c.arg, c.now) IN
                 c.out = [res |-> r.res, err |-> r.err]
           /\ Shared = c.snap
      [] c.op = "RotateIn" ->
           Shared = RotateIn(c.snap.keys, c.snap.heap, c.arg.key,
                             c.arg.expireAfter, c.now)
      [] c.op = "Purge" ->
           Shared = [keys |-> Purge(c.snap.keys, c.snap.heap, c.now),
                     heap |-> c.snap.heap]

\* C9: concurrent serializability.  In every interleaving of concurrent
\* Encrypt and Decrypt calls with RotateIn and Purge calls on one keyset, each
\* call's result is the result of the whole operation in the serial order in
\* which the calls take the lock: a writer holds the lock alone, the keyset
\* changes only in the steps of the writer, a reader's keyset stays as it was
\* when the reader took its lock, so that no Encrypt or Decrypt sees the
\* keyset between two writes of a RotateIn or in the middle of a Purge, and
\* every call returns what it returns when alone on that keyset; no call
\* panics.
C9_Serializable ==
    [][/\ \A p \in Procs : pc'[p] # "panic"
       /\ mu.w # {} => mu.r = {} /\ Cardinality(mu.w) = 1
       /\ \A p \in mu.r : call[p].snap = Shared
       /\ (keys' # keys \/ heap' # heap) =>
             \E p \in Procs : mu.w = {p} /\ << pc'[p], call'[p] >> # << pc[p], call[p] >>
       /\ \A p \in Procs : Returns(p) => AsIfAlone(p)
      ]_vars

\* C9 happens: goroutine p called Encrypt before goroutine q called RotateIn,
\* took its lock after q had released the write lock and has sealed under the
\* key q rotated in, with another reader holding the read lock at the same
\* time.
C9_Witness ==
    \E p, q \in Procs :
        /\ p < q
        /\ pc[p] = "runlock" /\ pc[q] = "done"
        /\ call[p].op = "Encrypt" /\ call[q].op = "RotateIn"
        /\ hist = << q >> /\ call[p].seen = 1
        /\ call[q].front # {}
        /\ call[p].out = Encrypt(call[p].arg.val, heap[call[q].arg.key].Value,
                                 call[p].arg.rnd)
        /\ call[p].out.err = NoErr
        /\ Cardinality(mu.r) = 2

\* the RotateIn calls at the end of the write-lock order, after the last Purge
RECURSIVE LastRotations(_)
LastRotations(h) ==
    IF h = << >> \/ call[h[Len(h)]].op # "RotateIn" THEN << >>
    ELSE Append(LastRotations(SubSeq(h, 1, Len(h) - 1)), h[Len(h)])

\* the keys of the RotateIn calls rs, the last call's key first
RECURSIVE NewestFirst(_)
NewestFirst(rs) ==
    IF rs = << >> THEN << >>
    ELSE << call[rs[Len(rs)]].arg.key >> \o NewestFirst(SubSeq(rs, 1, Len(rs) - 1))

\* The reader p, now returning, began after the RotateIn call of q had
\* returned, and q was the last to take the write lock before p took its
\* lock: p found q's key at index 0 and the key that was at the front before
\* with the expiry q wrote; Encrypt used q's key, Decrypt began with it.
SeesRotation(p, q) ==
    LET c == call[p]
        newKey == call[q].arg.key
    IN  /\ c.snap.keys # << >> /\ c.snap.keys[1] = newKey
        /\ \A f \in call[q].front :
              c.snap.heap[f].ExpiresUnix =
                  Unix(call[q].now + call[q].arg.expireAfter)
        /\ c.op = "Encrypt" =>
              /\ c.front = {newKey}
              /\ c.out = KeysetEncrypt(<< newKey >>, c.snap.heap, c.arg.val,
                                       c.now, c.arg.rnd)
        /\ c.op = "Decrypt" => c.view # << >> /\ c.view[1] = newKey

EncryptStep == ret'.op = "Encrypt"
DecryptStep == ret'.op = "Decrypt"
\* a failed return with error e
Fails(e) == [res |-> NilBytes, err |-> e]

\* C11: both Encrypt and Decrypt, called on a keyset with zero keys, fail
\* with "invalid keyset: empty" and leave the keyset empty.
C11_EmptyKeyset ==
    [][((EncryptStep \/ DecryptStep) /\ keys = << >>) =>
          ret'.out = Fails(ErrEmptyKeyset) /\ keys' = << >>
      ]_vars

\* C11 as the code has it: on a keyset with zero keys Encrypt fails with
\* "invalid keyset: empty", Decrypt fails with "no valid decryption key", and
\* both leave the keyset empty.
C11_EmptyKeysetByCall ==
    [][/\ (EncryptStep /\ keys = << >>) =>
             ret'.out = Fails(ErrEmptyKeyset) /\ keys' = << >>
       /\ (DecryptStep /\ keys = << >>) =>
             ret'.out = Fails(ErrNoValidDecryptionKey) /\ keys' = << >>
      ]_vars

\* C11 happens: Decrypt of a sealed value has just failed on an empty keyset.
C11_Witness ==
    /\ keys = << >>
    /\ ret.op = "Decrypt" /\ ret.arg \in SealedValues
    /\ ret.out = Fails(ErrNoValidDecryptionKey)

\* C12: Purge is idempotent and a no-op without expired keys.  Purging a
\* keyset in which no key is expired at time now leaves the key sequence and
\* every key's fields unchanged, and a second Purge at the same time now
\* leaves the keyset as the first Purge left it.
C12_PurgeIdempotent ==
    [][PurgeStep =>
          /\ (\A i \in Slots : ~IsExpired(KeyAt(i), Now)) =>
                keys' = keys /\ heap' = heap
          /\ ret.op = "Purge" => keys' = keys /\ heap' = heap
          /\ Purge(keys', heap', clock) = keys'
      ]_vars

\* C12 happens: Purge has just returned on a keyset of two keys of which none
\* is expired, the retired one expiring in the current second.
C12_Witness ==
    /\ ret.op = "Purge"
    /\ Len(keys) = 2
    /\ KeyAt(1).ExpiresUnix = 0
    /\ KeyAt(2).ExpiresUnix = Now

\* C13: expiry predicate.  For every key and every time now, negative
\* ExpiresUnix included, the front-key test of Encrypt, the skip test of
\* Decrypt and the removal test of Purge all take the key as expired iff
\* ExpiresUnix != 0 and ExpiresUnix < now: a key whose ExpiresUnix equals now
\* is not expired and ExpiresUnix == 0 never expires.
C13_ExpiryPredicate ==
    \A k \in KeyIds :
        /\ EncryptExpired(heap[k], Now) = IsExpired(heap[k], Now)
        /\ DecryptSkips(heap[k], Now) = IsExpired(heap[k], Now)
        /\ PurgeDrops(heap[k], Now) = IsExpired(heap[k], Now)

\* The three tests agree with isExpired on every key whose ExpiresUnix is not
\* negative, and with each other on every key.
C13_AfterEpoch ==
    \A k \in KeyIds :
        /\ heap[k].ExpiresUnix >= 0 =>
              EncryptExpired(heap[k], Now) = IsExpired(heap[k], Now)
        /\ EncryptExpired(heap[k], Now) = DecryptSkips(heap[k], Now)
        /\ DecryptSkips(heap[k], Now) = PurgeDrops(heap[k], Now)

\* C14: immediate retirement.  RotateIn(newKey, expireAfter) with expireAfter
\* zero or negative produces an already-expired previous key: right after the
\* call returns, at the same clock value, the previous front key is skipped
\* by Decrypt and would be removed by Purge.
C14_ImmediateRetirement ==
    [][(RotateInStep /\ Len(keys) > 0 /\ ret'.arg.expireAfter <= 0) =>
          /\ DecryptSkips(heap'[keys[1]], Now)
          /\ PurgeDrops(heap'[keys[1]], Now)
      ]_vars

\* What RotateIn does for retirement: right after the call the previous front
\* key is skipped by Decrypt and dropped by Purge exactly when now +
\* expireAfter lies in a second after the epoch and before the current one.
C14_RetiredWhenSecondsBack ==
    [][(RotateInStep /\ Len(keys) > 0) =>
          LET exp == Unix(clock + ret'.arg.expireAfter)
              retired == exp > 0 /\ exp < Now
          IN  /\ DecryptSkips(heap'[keys[1]], Now) = retired
              /\ PurgeDrops(heap'[keys[1]], Now) = retired
      ]_vars

(***************************************************************************)
(* Further properties of the concurrent callers.                           *)
(***************************************************************************)
\* the steps of Encrypt and Decrypt that read ks.keys or a Key, up to the
\* deferred RUnlock
ReadSection == {"e_front", "e_seal", "d_range", "d_loop", "runlock"}
\* the steps of RotateIn and Purge that read or write ks.keys or a Key, up to
\* the deferred Unlock
WriteSection == {"r_expire", "r_assign", "p_range", "p_loop", "p_trunc", "unlock"}

\* C15: lock discipline.  While a RotateIn or Purge is inside its critical
\* section no other RotateIn, Purge, Encrypt or Decrypt on the keyset is
\* inside its own; Encrypt and Decrypt may be inside theirs together; and
\* each operation is at a step that reads or writes the keys exactly while
\* it holds its lock, which Encrypt takes once for its emptiness test, expiry
\* test and seal.
C15_LockDiscipline ==
    /\ \A p \in Procs :
          /\ p \in mu.r <=> pc[p] \in ReadSection
          /\ p \in mu.w <=> pc[p] \in WriteSection
          /\ pc[p] \in ReadSection => call[p].op \in Readers
          /\ pc[p] \in WriteSection => call[p].op \in {"RotateIn", "Purge"}
    /\ \A p, q \in Procs :
          (p # q /\ pc[p] \in WriteSection) =>
              pc[q] \notin (ReadSection \cup WriteSection)
    /\ \A p \in Procs :
          pc[p] = "e_seal" => call[p].front = {call[p].snap.keys[1]}

\* C15 happens: an Encrypt, past its emptiness test, and a Decrypt, inside
\* its loop, hold the read lock together while a RotateIn waits for the
\* write lock.
C15_Witness ==
    \E p, q, w \in Procs :
        /\ pc[p] = "e_seal" /\ pc[q] = "d_loop" /\ pc[w] = "lock"
        /\ call[w].op = "RotateIn"
        /\ mu.r = {p, q} /\ mu.w = {}

\* goroutine p is inside a call
InCall(p) == pc[p] \notin {"idle", "done"}

\* some goroutine that is inside a call can take its next step
SomeCallCanStep ==
    \E p \in Procs :
        /\ InCall(p)
        /\ pc[p] = "rlock" => CanRLock(mu)
        /\ pc[p] = "lock" => CanLock(mu)

\* C16: termination and deadlock freedom.  Under fair scheduling every
\* invoked Encrypt, Decrypt, RotateIn and Purge eventually returns, on every
\* path, error returns included, with its lock released, whatever other
\* callers do on the keyset at the same time; and in no reachable state are
\* all the callers inside a call blocked.
C16_Terminates ==
    /\ []((\E p \in Procs : InCall(p)) => SomeCallCanStep)
    /\ \A p \in Procs :
          InCall(p) ~> (pc[p] = "done" /\ p \notin mu.r \cup mu.w)

\* C16 happens: three goroutines called Encrypt, RotateIn and Purge on one
\* keyset; both writers have had the lock, all three calls have returned and
\* the mutex is free.
C16_Witness ==
    /\ \A p \in Procs : pc[p] = "done"
    /\ mu = [w |-> {}, r |-> {}]
    /\ Len(hist) = 2
    /\ Len(keys) = 1
    /\ { call[p].op : p \in Procs } = {"Encrypt", "RotateIn", "Purge"}

\* C17: Encrypt and Decrypt are read-only.  Neither call, whether it succeeds
\* or fails, adds, removes or reorders keys or changes a key's ExpiresUnix;
\* the key sequence changes only through RotateIn, which prepends, and Purge,
\* which filters, and a key's fields change only through RotateIn; so Decrypt
\* never drops the expired keys it skips.
C17_ReadOnly ==
    [][/\ (EncryptStep \/ DecryptStep) => keys' = keys /\ heap' = heap
       /\ keys' # keys =>
             \/ RotateInStep /\ keys' = << ret'.arg.key >> \o keys
             \/ PurgeStep /\ \E S \in SUBSET KeyIds :
                                keys' = SelectSeq(keys, LAMBDA k : k \in S)
       /\ heap' # heap => RotateInStep
      ]_vars

\* C17 happens: Decrypt has just failed on a value sealed under a key of the
\* keyset that is expired; it skipped that key, which is still in the keyset.
C17_Witness ==
    /\ ret.op = "Decrypt" /\ ret.arg \in SealedValues
    /\ ret.out = Fails(ErrNoValidDecryptionKey)
    /\ \E i \in Slots :
          /\ KeyAt(i).Value = ret.arg.key
          /\ InThePast(KeyAt(i), Now)
          /\ i \notin Range(ret.tried)

\* the whole seconds time.Now().Unix() returns after the step
NowAfter == Unix(clock')

\* C18: expiry is permanent.  Once a key held in the keyset is expired, after
\* any RotateIn, Purge, Encrypt or Decrypt call or clock advance it is still
\* expired or has been removed; Decrypt does not succeed with an expired key
\* and Encrypt does not use one.
C18_ExpiryPermanent ==
    [][/\ \A k \in Range(keys) :
             IsExpired(heap[k], Now) =>
                 k \notin Range(keys') \/ IsExpired(heap'[k], NowAfter)
       /\ (DecryptStep /\ ret'.out.err = NoErr) =>
             ~IsExpired(heap[keys[ret'.tried[Len(ret'.tried)]]], Now)
       /\ (EncryptStep /\ ret'.out.err = NoErr) => ~IsExpired(KeyAt(1), Now)
      ]_vars

\* What makes an expired key of the keyset valid again: only a RotateIn that
\* finds it at index 0 and overwrites its ExpiresUnix.
C18_OnlyRotateInRevives ==
    [][\A k \in Range(keys) :
          (IsExpired(heap[k], Now) /\ k \in Range(keys')
              /\ ~IsExpired(heap'[k], NowAfter)) =>
                  RotateInStep /\ keys[1] = k
      ]_vars

\* what Keyset.Decrypt returns for val on the key sequence ks now
Outcome(ks, val) ==
    LET r == KeysetDecrypt(ks, heap, val, clock) IN [res |-> r.res, err |-> r.err]

\* C19: Purge is invisible to Decrypt.  For every reachable keyset, every
\* value and every time now, Decrypt returns the same outcome, the same
\* plaintext or "no valid decryption key", whether or not Purge was called at
\* time now right before it.
C19_PurgeInvisible ==
    /\ \A val \in CipherInputs :
          Outcome(Purge(keys, heap, clock), val) = Outcome(keys, val)
    /\ ret.op = "Decrypt" => ret.out = Outcome(Purge(keys, heap, clock), ret.arg)

\* C19 happens: Decrypt has just succeeded with a retired key on a keyset
\* from which a Purge now would drop a key.
C19_Witness ==
    /\ ret.op = "Decrypt" /\ ret.out.err = NoErr
    /\ Len(Purge(keys, heap, clock)) < Len(keys)
    /\ ret.tried # << >>
    /\ ret.tried[Len(ret.tried)] > 1

\* the keyset that is not w
Peer(w) == IF w = "keys" THEN "other" ELSE "keys"

\* a call of op has just returned on keyset w
JustRan(w, op) == ret'.op = op /\ ret'.arg.ks = w

\* What the callers of keyset w can see of it: its key sequence, the
\* ExpiresUnix of each key it holds, and what its Encrypt and Decrypt return.
Observed(w) ==
    LET ks == Slice(w) IN
    [slice |-> ks,
     expiry |-> [i \in 1 .. Len(ks) |-> heap[ks[i]].ExpiresUnix],
     encrypt |-> [rnd \in Nonces |->
                    KeysetEncrypt(ks, heap, ConcPlain, clock, rnd)],
     decrypt |-> [val \in TwoCiphers |-> Outcome(ks, val)]]

\* C20: Keyset isolation.  A RotateIn or a Purge on one keyset changes
\* nothing that the other keyset's callers can see: not its key sequence,
\* not the ExpiresUnix of any key it holds, not what its Encrypt and Decrypt
\* return; also when the same Key was installed in both keysets.
C20_Isolation ==
    [][\A w \in Keysets :
          (JustRan(w, "RotateIn") \/ JustRan(w, "Purge")) =>
              Observed(Peer(w))' = Observed(Peer(w))
      ]_vars

\* The part of C20 that holds: no call on one keyset changes the key
\* sequence of the other, Purge changes nothing at all of the other, and
\* RotateIn changes nothing of the other unless the key at its own index 0
\* is a Key that the other keyset holds too.
C20_IsolatedUnlessShared ==
    [][\A w \in Keysets :
          /\ (\E op \in {"Encrypt", "Decrypt", "RotateIn", "Purge"} :
                JustRan(w, op)) => Slice(Peer(w))' = Slice(Peer(w))
          /\ JustRan(w, "Purge") => Observed(Peer(w))' = Observed(Peer(w))
          /\ (JustRan(w, "RotateIn")
                /\ (Slice(w) = << >> \/ Slice(w)[1] \notin Range(Slice(Peer(w)))))
                    => Observed(Peer(w))' = Observed(Peer(w))
      ]_vars

\* The sharing happens: one Key sits at index 0 of one keyset and in the
\* other keyset, and a RotateIn has run on a keyset.
C20_SharedKey ==
    /\ ret.op = "RotateIn"
    /\ keys # << >> /\ other # << >>
    /\ Range(keys) \cap Range(other) # {}

====
